---- MODULE Spec2Model ----
(***************************************************************************)
(* Model of bridge/csv_logger.py: log_data, the serial-to-CSV logger loop. *)
(*                                                                         *)
(* Text is a sequence of one-character strings.  Bytes read from the       *)
(* serial port are the same, with InvalidByte standing for a byte that is  *)
(* not valid UTF-8; decoding turns it into ReplacementChar.                *)
(*                                                                         *)
(* KeyboardInterrupt is asynchronous: it can be raised between any two     *)
(* statements of log_data, so every statement that matters is one value of *)
(* pc and Interrupt is enabled at each of them.                            *)
(***************************************************************************)
EXTENDS Integers, Sequences, FiniteSets

\* ---------------------------------------------------------------- bounds
\* Lines the device sends during one run.
MaxLines == 2
\* Ctrl+C presses during one run.
MaxSigints == 1
\* Times the wall clock is seen to have advanced between two readings.
MaxTicks == 1

\* ------------------------------------------------------------- characters
InvalidByte == "xFF"
ReplacementChar == "uFFFD"
LF == "\n"
CR == "\r"
Whitespace == {" ", "\t", LF, CR}
Digits == <<"0", "1", "2", "3", "4", "5", "6", "7", "8", "9">>

\* str.isdigit on one character
IsDigit(c) == \E i \in 1..Len(Digits) : Digits[i] = c

\* str.startswith
StartsWith(s, p) == Len(s) >= Len(p) /\ SubSeq(s, 1, Len(p)) = p

\* bytes.decode('utf-8', errors='replace'): never raises, an undecodable
\* byte becomes U+FFFD.
Decode(bytes) ==
    [i \in 1..Len(bytes) |-> IF bytes[i] = InvalidByte THEN ReplacementChar ELSE bytes[i]]

RECURSIVE LStrip(_)
LStrip(s) == IF s # <<>> /\ Head(s) \in Whitespace THEN LStrip(Tail(s)) ELSE s

RECURSIVE RStrip(_)
RStrip(s) ==
    IF s # <<>> /\ s[Len(s)] \in Whitespace THEN RStrip(SubSeq(s, 1, Len(s) - 1)) ELSE s

\* str.strip()
Strip(s) == RStrip(LStrip(s))

\* line 87: ser.readline().decode('utf-8', errors='replace').strip()
DecodeLine(bytes) == Strip(Decode(bytes))

\* ------------------------------------------------------------------ clock
\* Microseconds the clock advances when it is seen to advance.
ClockStep == 1500

\* n as exactly w decimal digits (n < 10^w)
RECURSIVE ZeroPad(_, _)
ZeroPad(n, w) == IF w = 0 THEN <<>> ELSE ZeroPad(n \div 10, w - 1) \o <<Digits[(n % 10) + 1]>>

\* The date, hour and minute of the run; the model's clock stays within it.
DatePrefix ==
    <<"2", "0", "2", "6", "-", "0", "1", "-", "0", "1", " ", "1", "2", ":", "0", "0", ":">>

\* strftime('%Y-%m-%d %H:%M:%S.%f') of a clock reading in microseconds
Strftime(us) ==
    DatePrefix \o ZeroPad((us \div 1000000) % 60, 2) \o <<".">> \o ZeroPad(us % 1000000, 6)

\* line 109: datetime.now().strftime(...)[:-3]
FormatTimestamp(us) == LET s == Strftime(us) IN SubSeq(s, 1, Len(s) - 3)

\* ----------------------------------------------------------------- records
HeaderPrefix == <<"t", "i", "m", "e", "s", "t", "a", "m", "p", ",">>
RealTimePrefix == <<"r", "e", "a", "l", "_", "t", "i", "m", "e", ",">>

\* HeaderRecord with the real_time column forgotten.
HeaderRecordWithoutColumn(l) == l \o <<LF>>

\* line 101: f"real_time,{line}\n"
HeaderRecord(l) == RealTimePrefix \o l \o <<LF>>

\* DataRecord with the newline forgotten.
DataRecordWithoutNewline(ts, l) == ts \o <<",">> \o l

\* line 110: f"{timestamp},{line}\n"
DataRecord(ts, l) == ts \o <<",">> \o l \o <<LF>>

\* AppendTo as if the file were rewritten with the new text first.
PrependTo(content, text) == text \o content

\* file.write on a file opened with mode 'a'
AppendTo(content, text) == content \o text

\* NeedHeader with the flag ignored.
NeedHeaderAlways(hw) == TRUE

\* line 99: if not header_written
NeedHeader(hw) == ~hw

\* Increment that counts a line twice.
IncrementTwice(n) == n + 2

\* line 113: line_count += 1
Increment(n) == n + 1

\* Classify with the else branch of line 115 lost: what is neither comment
\* nor header is data.
ClassifyWithoutUnknown(l) ==
    IF l = <<>> THEN "empty"
    ELSE IF StartsWith(l, <<"#">>) THEN "comment"
    ELSE IF StartsWith(l, HeaderPrefix) THEN "header"
    ELSE "data"

\* The if-chain of lines 89-117, in its order.
Classify(l) ==
    IF l = <<>> THEN "empty"
    ELSE IF StartsWith(l, <<"#">>) THEN "comment"
    ELSE IF StartsWith(l, HeaderPrefix) THEN "header"
    ELSE IF (l # <<>> /\ IsDigit(l[1])) \/ StartsWith(l, <<"-">>) THEN "data"
    ELSE "unknown"

\* ------------------------------------------------------------------ inputs
\* What one ser.readline() can return: the bytes up to and including the
\* next newline.
SerialLines ==
    { <<"t", "i", "m", "e", "s", "t", "a", "m", "p", ",", "l", CR, LF>>,
      <<"t", "i", "m", "e", "s", "t", "a", "m", "p", LF>>,
      <<"#", "d", LF>>,
      <<"1", ",", "2", LF>>,
      <<" ", "-", "a", CR, LF>>,
      <<CR, LF>>,
      <<"3", ",", InvalidByte, "4", LF>>,
      <<InvalidByte, "4", LF>> }

\* What the output file can hold when the run opens it for appending.
PriorContents == { <<>>, <<"o", "l", "d", LF>> }

\* ------------------------------------------------------------------- state
VARIABLES
    pc,              \* the statement log_data is about to execute
    serOpen,         \* ser is an open serial.Serial
    fileOpen,        \* csv_file is an open file
    prior,           \* the output file's content when the run opened it
    file,            \* the output file's content
    header_written,  \* local of log_data, line 80
    line_count,      \* local of log_data, line 81
    line,            \* local of log_data, line 87
    timestamp,       \* local of log_data, line 109
    received,        \* every result of ser.readline() so far, in order
    clock,           \* the wall clock, in microseconds
    console,         \* what has been printed, in order
    pending,         \* the exception propagating out of log_data, or "none"
    cleanups,        \* times the finally block has been entered
    sigints          \* KeyboardInterrupts raised so far

vars == <<pc, serOpen, fileOpen, prior, file, header_written, line_count, line,
          timestamp, received, clock, console, pending, cleanups, sigints>>

\* print(...)
Emit(msg) == console' = Append(console, msg)

\* Statements inside the try block of lines 83-121.
TryPcs == {"poll", "classify", "write_header", "set_header", "timestamp", "write_data", "count"}
\* Statements inside the except clauses of lines 123-127.
HandlerPcs == {"except_kbd", "except_serial"}
\* Statements inside the finally block of lines 129-132.
FinallyPcs == {"finally_file", "finally_ser", "finally_print"}
\* Statements of log_data that no try block encloses.
UnprotectedPcs == {"open_serial", "open_file", "file_error", "start"}
\* log_data has been left: by return, or by an exception propagating.
ExitPcs == {"returned", "raised"}

\* header_written and line_count are unbound until lines 80-81 run; they are
\* given the values those lines assign.
Init ==
    /\ pc = "open_serial"
    /\ serOpen = FALSE
    /\ fileOpen = FALSE
    /\ prior \in PriorContents
    /\ file = prior
    /\ header_written = FALSE
    /\ line_count = 0
    /\ line = <<>>
    /\ timestamp = <<>>
    /\ received = <<>>
    /\ clock = 0
    /\ console = <<>>
    /\ pending = "none"
    /\ cleanups = 0
    /\ sigints = 0

\* ----------------------------------------------------------------- startup
\* lines 64, 52-54: serial.Serial(...) succeeds
OpenSerialOk ==
    /\ pc = "open_serial"
    /\ serOpen' = TRUE
    /\ Emit([tag |-> "connected"])
    /\ pc' = "open_file"
    /\ UNCHANGED <<fileOpen, prior, file, header_written, line_count, line, timestamp,
                   received, clock, pending, cleanups, sigints>>

\* lines 55-57, 65-66: serial.Serial(...) raises SerialException
OpenSerialFail ==
    /\ pc = "open_serial"
    /\ Emit([tag |-> "error_opening_port"])
    /\ pc' = "returned"
    /\ UNCHANGED <<serOpen, fileOpen, prior, file, header_written, line_count, line,
                   timestamp, received, clock, pending, cleanups, sigints>>

\* lines 70-71: open(output_file, 'a', buffering=1) succeeds
OpenFileOk ==
    /\ pc = "open_file"
    /\ fileOpen' = TRUE
    /\ Emit([tag |-> "logging_to"])
    /\ pc' = "start"
    /\ UNCHANGED <<serOpen, prior, file, header_written, line_count, line, timestamp,
                   received, clock, pending, cleanups, sigints>>

\* lines 72-73: open(...) raises IOError
OpenFileFail ==
    /\ pc = "open_file"
    /\ Emit([tag |-> "error_opening_file"])
    /\ pc' = "file_error"
    /\ UNCHANGED <<serOpen, fileOpen, prior, file, header_written, line_count, line,
                   timestamp, received, clock, pending, cleanups, sigints>>

\* CloseAfterFileError with ser.close() forgotten.
ReturnAfterFileError ==
    /\ pc = "file_error"
    /\ pc' = "returned"
    /\ UNCHANGED <<serOpen, fileOpen, prior, file, header_written, line_count, line,
                   timestamp, received, clock, console, pending, cleanups, sigints>>

\* lines 74-75: ser.close(); return
CloseAfterFileError ==
    /\ pc = "file_error"
    /\ serOpen' = FALSE
    /\ pc' = "returned"
    /\ UNCHANGED <<fileOpen, prior, file, header_written, line_count, line, timestamp,
                   received, clock, console, pending, cleanups, sigints>>

\* lines 77-81
Start ==
    /\ pc = "start"
    /\ Emit([tag |-> "starting"])
    /\ header_written' = FALSE
    /\ line_count' = 0
    /\ pc' = "poll"
    /\ UNCHANGED <<serOpen, fileOpen, prior, file, line, timestamp, received, clock,
                   pending, cleanups, sigints>>

\* --------------------------------------------------------------- main loop
\* lines 85-87: input is waiting; read one line, decode it, strip it
ReadLine ==
    /\ pc = "poll"
    /\ Len(received) < MaxLines
    /\ \E bytes \in SerialLines :
          /\ received' = Append(received, bytes)
          /\ line' = DecodeLine(bytes)
    /\ pc' = "classify"
    /\ UNCHANGED <<serOpen, fileOpen, prior, file, header_written, line_count, timestamp,
                   clock, console, pending, cleanups, sigints>>

\* lines 89-90: if not line: continue
SkipEmpty ==
    /\ pc = "classify"
    /\ Classify(line) = "empty"
    /\ pc' = "poll"
    /\ UNCHANGED <<serOpen, fileOpen, prior, file, header_written, line_count, line,
                   timestamp, received, clock, console, pending, cleanups, sigints>>

\* lines 93-95
PrintComment ==
    /\ pc = "classify"
    /\ Classify(line) = "comment"
    /\ Emit([tag |-> "comment", text |-> line])
    /\ pc' = "poll"
    /\ UNCHANGED <<serOpen, fileOpen, prior, file, header_written, line_count, line,
                   timestamp, received, clock, pending, cleanups, sigints>>

\* lines 98-99, 104
HeaderLine ==
    /\ pc = "classify"
    /\ Classify(line) = "header"
    /\ pc' = IF NeedHeader(header_written) THEN "write_header" ELSE "poll"
    /\ UNCHANGED <<serOpen, fileOpen, prior, file, header_written, line_count, line,
                   timestamp, received, clock, console, pending, cleanups, sigints>>

\* line 101
WriteHeader ==
    /\ pc = "write_header"
    /\ file' = AppendTo(file, HeaderRecord(line))
    /\ pc' = "set_header"
    /\ UNCHANGED <<serOpen, fileOpen, prior, header_written, line_count, line, timestamp,
                   received, clock, console, pending, cleanups, sigints>>

\* lines 102-104
SetHeaderWritten ==
    /\ pc = "set_header"
    /\ header_written' = TRUE
    /\ Emit([tag |-> "header", text |-> RealTimePrefix \o line])
    /\ pc' = "poll"
    /\ UNCHANGED <<serOpen, fileOpen, prior, file, line_count, line, timestamp, received,
                   clock, pending, cleanups, sigints>>

\* line 107, taken
DataLine ==
    /\ pc = "classify"
    /\ Classify(line) = "data"
    /\ pc' = "timestamp"
    /\ UNCHANGED <<serOpen, fileOpen, prior, file, header_written, line_count, line,
                   timestamp, received, clock, console, pending, cleanups, sigints>>

\* line 109: the clock has advanced since it was last read, or it has not
TakeTimestamp ==
    /\ pc = "timestamp"
    /\ \E d \in {0, 1} :
          /\ d = 1 => clock < MaxTicks * ClockStep
          /\ clock' = clock + d * ClockStep
    /\ timestamp' = FormatTimestamp(clock')
    /\ pc' = "write_data"
    /\ UNCHANGED <<serOpen, fileOpen, prior, file, header_written, line_count, line,
                   received, console, pending, cleanups, sigints>>

\* lines 110-111
WriteData ==
    /\ pc = "write_data"
    /\ file' = AppendTo(file, DataRecord(timestamp, line))
    /\ pc' = "count"
    /\ UNCHANGED <<serOpen, fileOpen, prior, header_written, line_count, line, timestamp,
                   received, clock, console, pending, cleanups, sigints>>

\* lines 113-114
CountLine ==
    /\ pc = "count"
    /\ line_count' = Increment(line_count)
    /\ Emit([tag |-> "data", count |-> line_count', time |-> timestamp, text |-> line])
    /\ pc' = "poll"
    /\ UNCHANGED <<serOpen, fileOpen, prior, file, header_written, line, timestamp,
                   received, clock, pending, cleanups, sigints>>

\* lines 115-117
PrintUnknown ==
    /\ pc = "classify"
    /\ Classify(line) = "unknown"
    /\ Emit([tag |-> "unknown", text |-> line])
    /\ pc' = "poll"
    /\ UNCHANGED <<serOpen, fileOpen, prior, file, header_written, line_count, line,
                   timestamp, received, clock, pending, cleanups, sigints>>

\* -------------------------------------------------------------- exceptions
\* lines 85, 87: ser.in_waiting or ser.readline() raises SerialException
SerialError ==
    /\ pc = "poll"
    /\ pc' = "except_serial"
    /\ UNCHANGED <<serOpen, fileOpen, prior, file, header_written, line_count, line,
                   timestamp, received, clock, console, pending, cleanups, sigints>>

\* lines 101, 111: csv_file.write raises an exception that no except clause
\* of lines 119-127 catches (OSError; UnicodeEncodeError when the file's
\* encoding has no U+FFFD); nothing is written
WriteError ==
    /\ pc \in {"write_header", "write_data"}
    /\ pending' = "OSError"
    /\ pc' = "finally_file"
    /\ UNCHANGED <<serOpen, fileOpen, prior, file, header_written, line_count, line,
                   timestamp, received, clock, console, cleanups, sigints>>

\* KeyboardInterrupt raised inside the try block: caught at line 123
InterruptInTry ==
    /\ pc \in TryPcs
    /\ sigints < MaxSigints
    /\ sigints' = sigints + 1
    /\ pc' = "except_kbd"
    /\ UNCHANGED <<serOpen, fileOpen, prior, file, header_written, line_count, line,
                   timestamp, received, clock, console, pending, cleanups>>

\* KeyboardInterrupt raised inside an except clause: the finally block runs
\* and the exception propagates
InterruptInHandler ==
    /\ pc \in HandlerPcs
    /\ sigints < MaxSigints
    /\ sigints' = sigints + 1
    /\ pending' = "KeyboardInterrupt"
    /\ pc' = "finally_file"
    /\ UNCHANGED <<serOpen, fileOpen, prior, file, header_written, line_count, line,
                   timestamp, received, clock, console, cleanups>>

\* KeyboardInterrupt raised where no try block encloses the statement (lines
\* 64-81) or inside the finally block (lines 130-132): it propagates at once
InterruptUnprotected ==
    /\ pc \in UnprotectedPcs \cup FinallyPcs
    /\ sigints < MaxSigints
    /\ sigints' = sigints + 1
    /\ pending' = "KeyboardInterrupt"
    /\ pc' = "raised"
    /\ UNCHANGED <<serOpen, fileOpen, prior, file, header_written, line_count, line,
                   timestamp, received, clock, console, cleanups>>

\* lines 123-124
ExceptKeyboardInterrupt ==
    /\ pc = "except_kbd"
    /\ Emit([tag |-> "stopped", count |-> line_count])
    /\ pc' = "finally_file"
    /\ UNCHANGED <<serOpen, fileOpen, prior, file, header_written, line_count, line,
                   timestamp, received, clock, pending, cleanups, sigints>>

\* lines 126-127
ExceptSerialException ==
    /\ pc = "except_serial"
    /\ Emit([tag |-> "serial_error"])
    /\ pc' = "finally_file"
    /\ UNCHANGED <<serOpen, fileOpen, prior, file, header_written, line_count, line,
                   timestamp, received, clock, pending, cleanups, sigints>>

\* ----------------------------------------------------------------- cleanup
\* lines 129-130
FinallyCloseFile ==
    /\ pc = "finally_file"
    /\ cleanups' = cleanups + 1
    /\ fileOpen' = FALSE
    /\ pc' = "finally_ser"
    /\ UNCHANGED <<serOpen, prior, file, header_written, line_count, line, timestamp,
                   received, clock, console, pending, sigints>>

\* line 131
FinallyCloseSerial ==
    /\ pc = "finally_ser"
    /\ serOpen' = FALSE
    /\ pc' = "finally_print"
    /\ UNCHANGED <<fileOpen, prior, file, header_written, line_count, line, timestamp,
                   received, clock, console, pending, cleanups, sigints>>

\* line 132, then the pending exception, if any, propagates
FinallyPrint ==
    /\ pc = "finally_print"
    /\ Emit([tag |-> "files_closed"])
    /\ pc' = IF pending = "none" THEN "returned" ELSE "raised"
    /\ UNCHANGED <<serOpen, fileOpen, prior, file, header_written, line_count, line,
                   timestamp, received, clock, pending, cleanups, sigints>>

Next ==
    \/ OpenSerialOk
    \/ OpenSerialFail
    \/ OpenFileOk
    \/ OpenFileFail
    \/ CloseAfterFileError
    \/ Start
    \/ ReadLine
    \/ SkipEmpty
    \/ PrintComment
    \/ HeaderLine
    \/ WriteHeader
    \/ SetHeaderWritten
    \/ DataLine
    \/ TakeTimestamp
    \/ WriteData
    \/ CountLine
    \/ PrintUnknown
    \/ SerialError
    \/ WriteError
    \/ InterruptInTry
    \/ InterruptInHandler
    \/ InterruptUnprotected
    \/ ExceptKeyboardInterrupt
    \/ ExceptSerialException
    \/ FinallyCloseFile
    \/ FinallyCloseSerial
    \/ FinallyPrint

Spec == Init /\ [][Next]_vars

\* ------------------------------------------------- reading the file back
\* The definitions below are used by the properties only.

\* What this run has appended to the output file.
Appended == SubSeq(file, Len(prior) + 1, Len(file))

\* Index of the first c in s, or 0.
FirstIndex(s, c) ==
    IF \E i \in 1..Len(s) : s[i] = c
    THEN CHOOSE i \in 1..Len(s) : s[i] = c /\ \A j \in 1..(i - 1) : s[j] # c
    ELSE 0

\* The newline-terminated records of a text, in order, without their newlines.
RECURSIVE Records(_)
Records(s) ==
    LET i == FirstIndex(s, LF)
    IN  IF i = 0 THEN <<>> ELSE <<SubSeq(s, 1, i - 1)>> \o Records(SubSeq(s, i + 1, Len(s)))

\* The text ends in the middle of a record.
Unterminated(s) == s # <<>> /\ s[Len(s)] # LF

\* A record's first comma-delimited field, and what follows that field's comma.
FirstField(r) == LET i == FirstIndex(r, ",") IN IF i = 0 THEN r ELSE SubSeq(r, 1, i - 1)
Payload(r) == LET i == FirstIndex(r, ",") IN IF i = 0 THEN <<>> ELSE SubSeq(r, i + 1, Len(r))

IsHeaderRecord(r) == StartsWith(r, RealTimePrefix)
IsDataRecord(r) == ~IsHeaderRecord(r)

AppendedRecords == Records(Appended)
HeaderRecords == SelectSeq(AppendedRecords, IsHeaderRecord)
DataRecords == SelectSeq(AppendedRecords, IsDataRecord)
DataPayloads == [i \in 1..Len(DataRecords) |-> Payload(DataRecords[i])]

\* A field of the form YYYY-MM-DD HH:MM:SS.mmm within the minute of DatePrefix.
IsTimestamp(f) ==
    /\ Len(f) = Len(DatePrefix) + 6
    /\ StartsWith(f, DatePrefix)
    /\ f[Len(DatePrefix) + 3] = "."
    /\ \A k \in {1, 2, 4, 5, 6} : IsDigit(f[Len(DatePrefix) + k])

DigitValue(c) == FirstIndex(Digits, c) - 1

\* Milliseconds into the minute that a timestamp field names, or -1.
Millis(f) ==
    IF ~IsTimestamp(f) THEN -1
    ELSE LET d(k) == DigitValue(f[Len(DatePrefix) + k])
         IN  (10 * d(1) + d(2)) * 1000 + 100 * d(4) + 10 * d(5) + d(6)

\* The line classes as section 3 of the specification words them.
IsCommentLine(l) == l # <<>> /\ l[1] = "#"
IsHeaderLine(l) == StartsWith(l, HeaderPrefix)
IsDataLine(l) == l # <<>> /\ (IsDigit(l[1]) \/ l[1] = "-")
IsUnknownLine(l) == l # <<>> /\ ~IsCommentLine(l) /\ ~IsHeaderLine(l) /\ ~IsDataLine(l)
IsWritableLine(l) == IsHeaderLine(l) \/ IsDataLine(l)

\* The lines received so far, decoded and trimmed.
Lines == [i \in 1..Len(received) |-> DecodeLine(received[i])]
HeaderLinesReceived == SelectSeq(Lines, IsHeaderLine)
DataLinesReceived == SelectSeq(Lines, IsDataLine)
WritableLinesReceived == SelectSeq(Lines, IsWritableLine)

\* The line being processed arrived with a byte that is not valid UTF-8.
CurrentLineMalformed ==
    /\ received # <<>>
    /\ \E i \in 1..Len(received[Len(received)]) : received[Len(received)][i] = InvalidByte

\* Every line received so far was valid UTF-8.
AllLinesWellFormed ==
    \A i \in 1..Len(received) : \A j \in 1..Len(received[i]) : received[i][j] # InvalidByte

Printed(t) == \E i \in 1..Len(console) : console[i].tag = t

IsPrefix(a, b) == Len(a) <= Len(b) /\ SubSeq(b, 1, Len(a)) = a

\* ------------------------------------------------------------- properties

\* C1: within one run at most one header record is appended.  Once the
\* lines received are all processed and one of them was a HeaderLine, the
\* file holds exactly the record real_time,<first HeaderLine> and
\* header_written is set; a HeaderLine met when header_written is set
\* appends nothing and prints nothing.
HeaderWrittenAtMostOnce ==
    /\ [](/\ Len(HeaderRecords) <= 1
          /\ (pc = "poll" /\ HeaderLinesReceived # <<>>) =>
                /\ header_written
                /\ HeaderRecords = <<RealTimePrefix \o HeaderLinesReceived[1]>>)
    /\ [][(pc = "classify" /\ IsHeaderLine(line) /\ header_written) =>
             (file' = file /\ console' = console /\ pc' \in {"poll", "except_kbd"})]_vars

\* C1 witness: two HeaderLines have been processed, one header record written.
TwoHeaderLinesProcessed ==
    /\ pc = "poll"
    /\ Len(HeaderLinesReceived) = 2
    /\ Len(HeaderRecords) = 1

\* C2: a DataLine always reaches the write of line 111, and that write
\* appends exactly one record, a timestamp field followed by a comma and the
\* trimmed line, character for character.
DataLineRoundTrip ==
    [][/\ (pc = "classify" /\ IsDataLine(line)) => pc' \in {"timestamp", "except_kbd"}
       /\ (pc = "timestamp" /\ IsDataLine(line)) => pc' \in {"write_data", "except_kbd"}
       /\ (pc = "write_data" /\ pc' = "count") =>
             /\ ~Unterminated(Appended')
             /\ Len(Records(Appended')) = Len(Records(Appended)) + 1
             /\ IsPrefix(Records(Appended), Records(Appended'))
             /\ IsTimestamp(FirstField(Records(Appended')[Len(Records(Appended'))]))
             /\ Payload(Records(Appended')[Len(Records(Appended'))]) = line]_vars

\* C2 witness: a DataLine that needed trimming has just been written.
TrimmedDataLineWritten ==
    /\ pc = "count"
    /\ line = <<"-", "a">>
    /\ Len(received[Len(received)]) > Len(line) + 1
    /\ DataPayloads # <<>>
    /\ DataPayloads[Len(DataPayloads)] = line

\* C3: whenever the loop has fully processed the lines received, line_count
\* is the number of DataLines among them; line_count never decreases.
LineCounterCountsDataLines ==
    /\ [](pc = "poll" => line_count = Len(DataLinesReceived))
    /\ [][line_count' >= line_count]_vars

\* C3 witness: DataLines and other lines have both been processed.
DataAndOtherLinesCounted ==
    /\ pc = "poll"
    /\ line_count >= 1
    /\ Len(received) > line_count

\* C4: while a line that arrived with an undecodable byte is being
\* processed, nothing is written and line_count does not change.
MalformedLineDiscarded ==
    [][(pc \in TryPcs \ {"poll"} /\ CurrentLineMalformed) =>
          (file' = file /\ line_count' = line_count)]_vars

\* C5: once both the serial port and the file have been opened, log_data is
\* only ever left with the finally block entered exactly once and both
\* closed.
CleanupOnEveryExit ==
    (pc \in ExitPcs /\ Printed("logging_to")) =>
        (cleanups = 1 /\ ~fileOpen /\ ~serOpen)

\* C6 as claimed: when this run has written a record, the first record it
\* wrote is a header record.  Stated over the runs whose lines were all valid
\* UTF-8, so that what refutes it owes nothing to how C4's lines are treated.
FirstRecordIsHeader ==
    (AllLinesWellFormed /\ AppendedRecords # <<>>) => IsHeaderRecord(AppendedRecords[1])

\* C6 as amended: the first record this run writes comes from the first
\* HeaderLine or DataLine received; it is the header record when that line
\* is a HeaderLine, and a data record carrying that line otherwise.
FirstRecordIsFirstWritableLine ==
    AppendedRecords # <<>> =>
        /\ WritableLinesReceived # <<>>
        /\ IF IsHeaderLine(WritableLinesReceived[1])
           THEN AppendedRecords[1] = RealTimePrefix \o WritableLinesReceived[1]
           ELSE /\ IsDataRecord(AppendedRecords[1])
                /\ IsTimestamp(FirstField(AppendedRecords[1]))
                /\ Payload(AppendedRecords[1]) = WritableLinesReceived[1]

\* C6 witness: a HeaderLine arrived first, a DataLine after it; both are in
\* the file, the header record first.
HeaderThenDataWritten ==
    /\ pc = "poll"
    /\ Len(AppendedRecords) = 2
    /\ IsHeaderRecord(AppendedRecords[1])
    /\ IsDataRecord(AppendedRecords[2])

\* C7: when opening the serial port or the output file fails, the main loop
\* never starts, nothing is written, the file is not open, and when log_data
\* returns the serial port is closed.
OpenFailureLeavesNothingOpen ==
    (Printed("error_opening_port") \/ Printed("error_opening_file")) =>
        /\ pc \notin TryPcs \cup HandlerPcs \cup FinallyPcs
        /\ ~Printed("starting")
        /\ received = <<>>
        /\ file = prior
        /\ ~fileOpen
        /\ pc = "returned" => ~serOpen

\* C7 witness: the port was opened, opening the file failed, log_data returned.
ReturnedAfterFileOpenFailure ==
    /\ pc = "returned"
    /\ Printed("connected")
    /\ Printed("error_opening_file")

\* C8: a comment, an unknown line, an empty line and a HeaderLine met when
\* header_written is set each leave the file, header_written and line_count
\* as they were, and the loop goes on to the next line.
OtherLinesChangeNothing ==
    [][(/\ pc = "classify"
        /\ \/ line = <<>>
           \/ IsCommentLine(line)
           \/ IsUnknownLine(line)
           \/ (IsHeaderLine(line) /\ header_written)) =>
          /\ file' = file
          /\ header_written' = header_written
          /\ line_count' = line_count
          /\ pc' \in {"poll", "except_kbd"}]_vars

\* C8 witness: an unknown line has been processed after a data record was
\* written.
UnknownLineProcessed ==
    /\ pc = "poll"
    /\ line_count = 1
    /\ Lines # <<>>
    /\ IsUnknownLine(Lines[Len(Lines)])
    /\ Printed("unknown")

\* C9: the data records in the file carry, in order, the DataLines received
\* (all of them once the loop has processed every line received), and their
\* timestamps never go back.
WriteOrderIsArrivalOrder ==
    /\ IsPrefix(DataPayloads, DataLinesReceived)
    /\ pc = "poll" => DataPayloads = DataLinesReceived
    /\ \A i \in 1..Len(DataRecords) : IsTimestamp(FirstField(DataRecords[i]))
    /\ \A i \in 1..(Len(DataRecords) - 1) :
          Millis(FirstField(DataRecords[i])) <= Millis(FirstField(DataRecords[i + 1]))

\* C9 witness: two different DataLines written at two different times.
TwoDataRecordsInOrder ==
    /\ pc = "poll"
    /\ Len(DataRecords) = 2
    /\ DataPayloads[1] # DataPayloads[2]
    /\ Millis(FirstField(DataRecords[1])) < Millis(FirstField(DataRecords[2]))

\* C10: the summary printed on KeyboardInterrupt reports the number of data
\* records this run appended to the file.  Stated over the runs whose lines
\* were all valid UTF-8, as for C6.
SummaryCountsRecords ==
    AllLinesWellFormed =>
        \A i \in 1..Len(console) :
            console[i].tag = "stopped" => console[i].count = Len(DataRecords)

====
